---- MODULE Spec2Model ----
(***************************************************************************)
(* Software rasteriser of proyecto3: the depth-tested framebuffer          *)
(* (src/src/framebuffer.rs) and the fragment loop of render                *)
(* (src/src/main.rs).                                                      *)
(*                                                                         *)
(* f32 values are records: NaN, PosInf, NegInf, or Fin(n) for a finite     *)
(* value.  What n stands for depends on the quantity:                      *)
(*   depth            n                  (whole units)                     *)
(*   color component  n / Den            (Den = 255 * Sub, so One is 1.0)  *)
(*   screen position  n / Sub            (so rounding has work to do)      *)
(***************************************************************************)
EXTENDS Integers, Sequences, FiniteSets, TLC

VARIABLES fb, panicked, writes, clear_bg, bg_given, last, pc, main

vars == <<fb, panicked, writes, clear_bg, bg_given, last, pc, main>>

\* Bounds of the model.
FbWidth == 2
FbHeight == 2
LineFbWidth == 6
MaxCoord == 3
MaxLineSteps == 4
MaxSegments == 2
MaxStars == 1
MaxWrites == 2
MaxOrder == 3
MaxFrags == 2
MaxVerts == 6
Sub == 2

(***************************************************************************)
(* f32                                                                     *)
(***************************************************************************)
NaN == [k |-> "nan", v |-> 0]
PosInf == [k |-> "inf", v |-> 1]
NegInf == [k |-> "inf", v |-> -1]
Fin(n) == [k |-> "fin", v |-> n]

is_finite(a) == a.k = "fin"

\* IEEE-754 a < b: false as soon as one side is NaN.
FLt(a, b) ==
  CASE a.k = "nan" \/ b.k = "nan" -> FALSE
    [] a.k = "fin" /\ b.k = "fin" -> a.v < b.v
    [] a.k = "inf" /\ b.k = "inf" -> a.v < b.v
    [] a.k = "inf" -> a.v < 0
    [] OTHER -> b.v > 0

\* f32::clamp(lo, hi): NaN stays NaN.
clamp(a, lo, hi) ==
  IF a.k = "nan" THEN a
  ELSE IF FLt(a, lo) THEN lo
  ELSE IF FLt(hi, a) THEN hi
  ELSE a

ChannelMax == 255
Den == ChannelMax * Sub
One == Den

\* c * 255.0 on a color component (numerator over Den).
Mul255(a) == IF a.k = "fin" THEN Fin(a.v * ChannelMax) ELSE a

\* `as u8` on a color-scaled f32: truncates toward zero, saturates at 0 and
\* 255, NaN becomes 0.
AsU8(a) ==
  CASE a.k = "nan" -> 0
    [] a.k = "inf" -> IF a.v > 0 THEN ChannelMax ELSE 0
    [] OTHER -> IF a.v < 0 THEN 0
                ELSE IF a.v \div Den > ChannelMax THEN ChannelMax
                ELSE a.v \div Den

\* A wrong packing: no clamp and a wrapping cast.
PackChannelWrap(c) ==
  CASE c.k = "nan" -> 0
    [] c.k = "inf" -> 0
    [] OTHER -> ((c.v * ChannelMax) \div Den) % (ChannelMax + 1)

\* (color.x.clamp(0.0, 1.0) * 255.0) as u8
PackChannel(c) == AsU8(Mul255(clamp(c, Fin(0), Fin(One))))

Color(r, g, b, a) == [r |-> r, g |-> g, b |-> b, a |-> a]
BLACK == Color(0, 0, 0, 255)
WHITE == Color(255, 255, 255, 255)
SpaceBlue == Color(25, 25, 75, 255)
OrbitColor == Color(255, 255, 255, 50)

\* Color::new(pack x, pack y, pack z, 255)
PackColor(color) ==
  Color(PackChannel(color[1]), PackChannel(color[2]), PackChannel(color[3]), ChannelMax)

\* color.r as f32 / 255.0 (exact in f32 for every u8: r/255 then *255 gives r back).
U8ToUnit(r) == Fin((r * Den) \div ChannelMax)

ColorToVector3(color) == <<U8ToUnit(color.r), U8ToUnit(color.g), U8ToUnit(color.b)>>

(***************************************************************************)
(* Framebuffer                                                             *)
(***************************************************************************)
Pixels(w, h) == (0 .. w - 1) \X (0 .. h - 1)

New(w, h) ==
  [width |-> w, height |-> h,
   color_buffer |-> [p \in Pixels(w, h) |-> BLACK],
   background_color |-> BLACK,
   current_color |-> WHITE,
   depth_buffer |-> [i \in 0 .. w * h - 1 |-> PosInf]]

\* A clear that forgets the configured background.
ClearBlack(f) ==
  [f EXCEPT !.color_buffer = [p \in DOMAIN f.color_buffer |-> BLACK],
            !.depth_buffer = [i \in DOMAIN f.depth_buffer |-> PosInf]]

\* A clear that leaves the depth buffer alone.
ClearColorOnly(f) ==
  [f EXCEPT !.color_buffer = [p \in DOMAIN f.color_buffer |-> f.background_color]]

Clear(f) ==
  [f EXCEPT !.color_buffer = [p \in DOMAIN f.color_buffer |-> f.background_color],
            !.depth_buffer = [i \in DOMAIN f.depth_buffer |-> PosInf]]

SetBackgroundColor(f, color) == [f EXCEPT !.background_color = color]

\* Off by one on the right and bottom edges.
InBoundsInclusive(f, x, y) == x >= 0 /\ x <= f.width /\ y >= 0 /\ y <= f.height

InBounds(f, x, y) == x >= 0 /\ x < f.width /\ y >= 0 /\ y < f.height

Index(f, x, y) == y * f.width + x

\* Depth tests that let an equal depth through.
DepthTestLe(depth, stored) == ~FLt(stored, depth) /\ depth.k # "nan" /\ stored.k # "nan"

DepthTestLeq(depth, stored) == DepthTestLe(depth, stored)

DepthTestLeTie(depth, stored) == DepthTestLe(depth, stored)

\* No depth test at all: the last write wins.
DepthTestAlways(depth, stored) == TRUE

\* depth < self.depth_buffer[index]
DepthTest(depth, stored) == FLt(depth, stored)

\* Image::draw_pixel: raylib ignores a pixel outside the image.
DrawPixel(img, x, y, color) ==
  IF <<x, y>> \in DOMAIN img THEN [img EXCEPT ![<<x, y>>] = color] ELSE img

\* self.depth_buffer[index] with index outside the Vec: the indexing panics.
PointPanics(f, x, y) == InBounds(f, x, y) /\ Index(f, x, y) \notin DOMAIN f.depth_buffer

\* Channel-wise saturating sum of two stored colors.
AddColor(c1, c2) ==
  LET sat(n) == IF n > ChannelMax THEN ChannelMax ELSE n
  IN Color(sat(c1.r + c2.r), sat(c1.g + c2.g), sat(c1.b + c2.b), ChannelMax)

\* A write that blends additively into what is stored, equal depth included.
StoreBlend(f, x, y, color, depth) ==
  [f EXCEPT !.depth_buffer[Index(f, x, y)] = depth,
            !.color_buffer = DrawPixel(f.color_buffer, x, y,
                                       AddColor(f.color_buffer[<<x, y>>], PackColor(color)))]

\* The body of the depth-test branch: update both buffers.
Store(f, x, y, color, depth) ==
  [f EXCEPT !.depth_buffer[Index(f, x, y)] = depth,
            !.color_buffer = DrawPixel(f.color_buffer, x, y, PackColor(color))]

\* A point that lets an equal depth through and blends into the stored color.
PointBlend(f, x, y, color, depth) ==
  IF InBounds(f, x, y) /\ ~PointPanics(f, x, y)
     /\ DepthTestLe(depth, f.depth_buffer[Index(f, x, y)])
  THEN StoreBlend(f, x, y, color, depth)
  ELSE f

Point(f, x, y, color, depth) ==
  IF InBounds(f, x, y) /\ ~PointPanics(f, x, y)
     /\ DepthTest(depth, f.depth_buffer[Index(f, x, y)])
  THEN Store(f, x, y, color, depth)
  ELSE f

Abs(n) == IF n < 0 THEN -n ELSE n

\* A loop that tests for the end point before drawing it.
RECURSIVE LineLoopNoEnd(_, _, _, _, _, _, _, _, _)
LineLoopNoEnd(x0, y0, x1, y1, dx, dy, sx, sy, err) ==
  IF x0 = x1 /\ y0 = y1 THEN << >>
  ELSE LET e2 == 2 * err
           stepx == e2 > -dy
           stepy == e2 < dx
           err1 == IF stepx THEN err - dy ELSE err
           nx == IF stepx THEN x0 + sx ELSE x0
           err2 == IF stepy THEN err1 + dx ELSE err1
           ny == IF stepy THEN y0 + sy ELSE y0
       IN << <<x0, y0>> >> \o LineLoopNoEnd(nx, ny, x1, y1, dx, dy, sx, sy, err2)

\* A loop whose second `if` is an `else if`: one axis per iteration.
RECURSIVE LineLoopOneAxis(_, _, _, _, _, _, _, _, _)
LineLoopOneAxis(x0, y0, x1, y1, dx, dy, sx, sy, err) ==
  IF x0 = x1 /\ y0 = y1 THEN << <<x0, y0>> >>
  ELSE LET e2 == 2 * err
           stepx == e2 > -dy
           stepy == ~stepx /\ e2 < dx
           err1 == IF stepx THEN err - dy ELSE err
           nx == IF stepx THEN x0 + sx ELSE x0
           err2 == IF stepy THEN err1 + dx ELSE err1
           ny == IF stepy THEN y0 + sy ELSE y0
       IN << <<x0, y0>> >> \o LineLoopOneAxis(nx, ny, x1, y1, dx, dy, sx, sy, err2)

\* The loop of draw_line_with_depth: the pixels handed to point, in order.
RECURSIVE LineLoop(_, _, _, _, _, _, _, _, _)
LineLoop(x0, y0, x1, y1, dx, dy, sx, sy, err) ==
  IF x0 = x1 /\ y0 = y1 THEN << <<x0, y0>> >>
  ELSE LET e2 == 2 * err
           stepx == e2 > -dy
           stepy == e2 < dx
           err1 == IF stepx THEN err - dy ELSE err
           nx == IF stepx THEN x0 + sx ELSE x0
           err2 == IF stepy THEN err1 + dx ELSE err1
           ny == IF stepy THEN y0 + sy ELSE y0
       IN << <<x0, y0>> >> \o LineLoop(nx, ny, x1, y1, dx, dy, sx, sy, err2)

LinePath(x0, y0, x1, y1) ==
  LET dx == Abs(x1 - x0)
      dy == Abs(y1 - y0)
      sx == IF x0 < x1 THEN 1 ELSE -1
      sy == IF y0 < y1 THEN 1 ELSE -1
  IN LineLoop(x0, y0, x1, y1, dx, dy, sx, sy, dx - dy)

\* A sequence of point calls [x, y, color, depth] applied in order.
RECURSIVE PointAll(_, _)
PointAll(f, calls) ==
  IF calls = << >> THEN f
  ELSE PointAll(Point(f, calls[1].x, calls[1].y, calls[1].color, calls[1].depth),
                Tail(calls))

Call(x, y, color, depth) == [x |-> x, y |-> y, color |-> color, depth |-> depth]

\* The point calls draw_line_with_depth makes.
LineCalls(x0, y0, x1, y1, color, depth) ==
  LET path == LinePath(x0, y0, x1, y1)
  IN [i \in 1 .. Len(path) |-> Call(path[i][1], path[i][2], ColorToVector3(color), depth)]

DrawLineWithDepth(f, x0, y0, x1, y1, color, depth) ==
  PointAll(f, LineCalls(x0, y0, x1, y1, color, depth))

(***************************************************************************)
(* History kept beside the program state                                   *)
(*   writes    the point calls addressed to a pixel of the framebuffer     *)
(*             since the last clear (or since new), in call order          *)
(*   clear_bg  the background color used by the last clear (or by new)     *)
(*   bg_given  the color last given to set_background_color, or the        *)
(*             default                                                     *)
(*   last      the last operation and its arguments                        *)
(*   pc        the position in the scenario of a specification             *)
(*   main      the locals of main and its position, when main is run       *)
(***************************************************************************)
\* The state of main before main has run.
NotStarted == [at |-> "not_started"]

Addressed(f, calls) ==
  SelectSeq(calls, LAMBDA c : c.x \in 0 .. f.width - 1 /\ c.y \in 0 .. f.height - 1)

AnyPanics(f, calls) == \E i \in 1 .. Len(calls) : PointPanics(f, calls[i].x, calls[i].y)

InitFb(w, h) ==
  /\ fb = New(w, h)
  /\ panicked = FALSE
  /\ writes = << >>
  /\ clear_bg = BLACK
  /\ bg_given = BLACK
  /\ last = [op |-> "new", args |-> <<w, h>>]
  /\ pc = "new"
  /\ main = NotStarted

Init == InitFb(FbWidth, FbHeight)

\* A framebuffer of one row.
InitRow == InitFb(FbWidth, 1)

ClearOp ==
  /\ ~panicked
  /\ fb' = Clear(fb)
  /\ writes' = << >>
  /\ clear_bg' = fb.background_color
  /\ last' = [op |-> "clear", args |-> << >>]
  /\ UNCHANGED <<panicked, bg_given>>

SetBackgroundColorOp(color) ==
  /\ ~panicked
  /\ fb' = SetBackgroundColor(fb, color)
  /\ bg_given' = color
  /\ last' = [op |-> "set_background_color", args |-> <<color>>]
  /\ UNCHANGED <<panicked, writes, clear_bg>>

PointOp(x, y, color, depth) ==
  /\ ~panicked
  /\ fb' = Point(fb, x, y, color, depth)
  /\ panicked' = PointPanics(fb, x, y)
  /\ writes' = writes \o Addressed(fb, <<Call(x, y, color, depth)>>)
  /\ last' = [op |-> "point", args |-> <<x, y, color, depth>>]
  /\ UNCHANGED <<clear_bg, bg_given>>

DrawLineOp(x0, y0, x1, y1, color, depth) ==
  /\ ~panicked
  /\ fb' = DrawLineWithDepth(fb, x0, y0, x1, y1, color, depth)
  /\ panicked' = AnyPanics(fb, LineCalls(x0, y0, x1, y1, color, depth))
  /\ writes' = writes \o Addressed(fb, LineCalls(x0, y0, x1, y1, color, depth))
  /\ last' = [op |-> "draw_line_with_depth",
              args |-> <<x0, y0, x1, y1, color, depth,
                         LineCalls(x0, y0, x1, y1, color, depth)>>]
  /\ UNCHANGED <<clear_bg, bg_given>>

(***************************************************************************)
(* Inputs                                                                  *)
(***************************************************************************)
ColorA == <<Fin(One), Fin(0), Fin(One \div 2)>>
ColorB == <<Fin(2 * One), Fin(-One), NaN>>
ColorC == <<PosInf, NegInf, Fin(One + One \div 2)>>

Colors2 == {ColorA, ColorB}
Colors3 == {ColorA, ColorB, ColorC}

Depths4 == {NaN, Fin(1), Fin(2), PosInf}
Depths5 == {NaN, NegInf, Fin(1), Fin(2), PosInf}

Backgrounds == {SpaceBlue, WHITE}

\* One position beyond each edge of the framebuffer.
Outside(f) == {<<-1, 0>>, <<f.width, 0>>, <<0, -1>>, <<0, f.height>>}

Around(f) == (-1 .. f.width) \X (-1 .. f.height)

(***************************************************************************)
(* Any sequence of operations on a one-row framebuffer, with at most       *)
(* MaxWrites write calls between two clears (Spec)                         *)
(***************************************************************************)
SomePoint ==
  /\ Len(writes) < MaxWrites
  /\ \E p \in DOMAIN fb.color_buffer \cup Outside(fb) :
       \E color \in Colors2 : \E depth \in Depths4 :
         /\ (p \notin DOMAIN fb.color_buffer => color = ColorA /\ depth = Fin(1))
         /\ PointOp(p[1], p[2], color, depth)

SomeLine ==
  /\ Len(writes) < MaxWrites
  /\ \E p \in DOMAIN fb.color_buffer : \E q \in DOMAIN fb.color_buffer :
       DrawLineOp(p[1], p[2], q[1], q[2], OrbitColor, Fin(1))

SomeBackground == \E color \in Backgrounds : SetBackgroundColorOp(color)

RunClear == ClearOp /\ pc' = pc /\ main' = main

RunBackground == SomeBackground /\ pc' = pc /\ main' = main

RunPoint == SomePoint /\ pc' = pc /\ main' = main

RunLine == SomeLine /\ pc' = pc /\ main' = main

Next == RunClear \/ RunBackground \/ RunPoint \/ RunLine

Spec == InitRow /\ [][Next]_vars

(***************************************************************************)
(* Properties of sequences of framebuffer operations (Spec)                *)
(***************************************************************************)
\* The calls addressed to pixel (x, y) since the last clear, in call order.
WritesAt(x, y) == SelectSeq(writes, LAMBDA c : c.x = x /\ c.y = y)

StoredColor(x, y) == fb.color_buffer[<<x, y>>]
StoredDepth(x, y) == fb.depth_buffer[y * fb.width + x]

\* m is the least depth among ws, +infinity when ws holds no smaller one.
IsMinDepth(m, ws) ==
  /\ m.k # "nan"
  /\ m = PosInf \/ \E i \in 1 .. Len(ws) : ws[i].depth = m
  /\ \A i \in 1 .. Len(ws) : ~FLt(ws[i].depth, m)

MinCandidates(ws) == {PosInf} \cup {ws[i].depth : i \in 1 .. Len(ws)}

MinDepthOf(ws) == CHOOSE m \in MinCandidates(ws) : IsMinDepth(m, ws)

FirstAt(ws, m) ==
  CHOOSE i \in 1 .. Len(ws) :
    ws[i].depth = m /\ \A j \in 1 .. i - 1 : ws[j].depth # m

\* C1 as stated: every depth cell holds the minimum depth written to its
\* pixel since the last clear (+infinity if none), and the pixel's color is
\* the color of a write that supplied that minimum.
C1_MinDepthAndItsColor ==
  \A p \in DOMAIN fb.color_buffer :
    LET ws == WritesAt(p[1], p[2])
        m == MinDepthOf(ws)
    IN /\ StoredDepth(p[1], p[2]) = m
       /\ ws # << >> =>
            \E i \in 1 .. Len(ws) :
              ws[i].depth = m /\ StoredColor(p[1], p[2]) = PackColor(ws[i].color)

\* C1 amended: every depth cell holds the minimum depth written to its pixel
\* since the last clear (+infinity if none); when that minimum is below
\* +infinity the pixel's color is the color of the first write that supplied
\* it, and otherwise the pixel still has the color the clear gave it.
C1_MinDepthAndFirstColor ==
  \A p \in DOMAIN fb.color_buffer :
    LET ws == WritesAt(p[1], p[2])
        m == MinDepthOf(ws)
    IN /\ StoredDepth(p[1], p[2]) = m
       /\ IF FLt(m, PosInf)
          THEN StoredColor(p[1], p[2]) = PackColor(ws[FirstAt(ws, m)].color)
          ELSE StoredColor(p[1], p[2]) = clear_bg

\* A pixel written twice, the second time nearer, and holding the second write.
C1_Witness ==
  \E p \in DOMAIN fb.color_buffer :
    LET ws == WritesAt(p[1], p[2])
    IN /\ Len(ws) >= 2
       /\ is_finite(ws[1].depth)
       /\ FLt(ws[2].depth, ws[1].depth)
       /\ StoredDepth(p[1], p[2]) = ws[2].depth
       /\ StoredColor(p[1], p[2]) = PackColor(ws[2].color)

\* The framebuffer right after the last clear.
FreshFb ==
  [fb EXCEPT !.color_buffer = [p \in DOMAIN fb.color_buffer |-> clear_bg],
             !.depth_buffer = [i \in DOMAIN fb.depth_buffer |-> PosInf]]

Perms(n) == {f \in [1 .. n -> 1 .. n] : \A i, j \in 1 .. n : f[i] = f[j] => i = j}

Reordered(calls, f) == [i \in 1 .. Len(calls) |-> calls[f[i]]]

\* Two writes to (x, y) with different stored colors share its minimum depth.
TieAt(x, y) ==
  LET ws == WritesAt(x, y)
      m == MinDepthOf(ws)
  IN /\ FLt(m, PosInf)
     /\ \E i, j \in 1 .. Len(ws) :
          /\ ws[i].depth = m
          /\ ws[j].depth = m
          /\ PackColor(ws[i].color) # PackColor(ws[j].color)

(***************************************************************************)
(* Up to MaxOrder depth-tested writes, in every order, on a freshly        *)
(* cleared one-row framebuffer (SpecOrder)                                 *)
(***************************************************************************)
OrderDepths == {Fin(1), Fin(2)}

OrderClear == pc = "new" /\ ClearOp /\ pc' = "cleared" /\ main' = main

OrderPoint ==
  /\ pc = "cleared"
  /\ Len(writes) < MaxOrder
  /\ \E p \in DOMAIN fb.color_buffer : \E color \in Colors2 : \E depth \in OrderDepths :
       PointOp(p[1], p[2], color, depth)
  /\ pc' = pc /\ main' = main

NextOrder == OrderClear \/ OrderPoint

SpecOrder == InitRow /\ [][NextOrder]_vars

\* C4 as stated: applying the writes made since the clear in any other order
\* gives the same color buffer and the same depth buffer.
C4_AnyOrderSameBuffers ==
  \A f \in Perms(Len(writes)) :
    LET r == PointAll(FreshFb, Reordered(writes, f))
    IN r.color_buffer = fb.color_buffer /\ r.depth_buffer = fb.depth_buffer

\* C4 amended: applying the writes made since the clear in any other order
\* gives the same depth buffer, and the same color at every pixel except
\* those where two writes with different colors share the pixel's minimum
\* depth (there the write applied first wins).
C4_AnyOrderSameUnlessTie ==
  \A f \in Perms(Len(writes)) :
    LET r == PointAll(FreshFb, Reordered(writes, f))
    IN /\ r.depth_buffer = fb.depth_buffer
       /\ \A p \in DOMAIN fb.color_buffer :
            ~TieAt(p[1], p[2]) => r.color_buffer[p] = fb.color_buffer[p]

\* Two writes of different finite depths and colors to one pixel, farther first.
C4_Witness ==
  \E p \in DOMAIN fb.color_buffer :
    LET ws == WritesAt(p[1], p[2])
    IN /\ Len(ws) >= 2
       /\ is_finite(ws[2].depth)
       /\ FLt(ws[1].depth, ws[2].depth)
       /\ PackColor(ws[1].color) # PackColor(ws[2].color)
       /\ StoredColor(p[1], p[2]) = PackColor(ws[1].color)

\* C6 as stated: a pixel not written since the last clear holds the current
\* background color.
C6_UntouchedIsCurrentBackground ==
  \A p \in DOMAIN fb.color_buffer :
    WritesAt(p[1], p[2]) = << >> => StoredColor(p[1], p[2]) = bg_given

\* C6 amended: a pixel not written since the last clear (or since creation)
\* holds the background color that was current when that clear ran (the
\* default color at creation).
C6_UntouchedIsBackgroundOfLastClear ==
  \A p \in DOMAIN fb.color_buffer :
    WritesAt(p[1], p[2]) = << >> => StoredColor(p[1], p[2]) = clear_bg

\* After a clear with a configured background, one pixel was written and
\* another was not, and the background was changed again since.
C6_Witness ==
  /\ clear_bg = SpaceBlue
  /\ bg_given = WHITE
  /\ \E p, q \in DOMAIN fb.color_buffer :
       /\ WritesAt(p[1], p[2]) = << >>
       /\ StoredColor(p[1], p[2]) = SpaceBlue
       /\ WritesAt(q[1], q[2]) # << >>
       /\ StoredColor(q[1], q[2]) # SpaceBlue

\* C7: right after clear() every depth cell is +infinity, every color cell is
\* the color last given to set_background_color (the default if none), and
\* the dimensions of the framebuffer and of both buffers are what they were.
C7_ClearResetsEverything ==
  [][last'.op = "clear" =>
       /\ \A i \in DOMAIN fb'.depth_buffer : fb'.depth_buffer[i] = PosInf
       /\ \A p \in DOMAIN fb'.color_buffer : fb'.color_buffer[p] = bg_given'
       /\ fb'.width = fb.width /\ fb'.height = fb.height
       /\ DOMAIN fb'.color_buffer = DOMAIN fb.color_buffer
       /\ DOMAIN fb'.depth_buffer = DOMAIN fb.depth_buffer]_vars

\* A clear has just run under a configured background.
C7_Witness ==
  /\ last.op = "clear"
  /\ bg_given = SpaceBlue
  /\ \A p \in DOMAIN fb.color_buffer : fb.color_buffer[p] = SpaceBlue

(***************************************************************************)
(* Two point calls on a freshly cleared framebuffer (SpecPoint)            *)
(***************************************************************************)
AnyPoint ==
  \E p \in Around(fb) : \E color \in Colors3 : \E depth \in Depths5 :
    PointOp(p[1], p[2], color, depth)

ConfigureBackground == pc = "new" /\ SomeBackground /\ pc' = pc /\ main' = main

FirstClear == pc = "new" /\ ClearOp /\ pc' = "cleared" /\ main' = main

FirstPoint == pc = "cleared" /\ AnyPoint /\ pc' = "first" /\ main' = main

SecondPoint == pc = "first" /\ AnyPoint /\ pc' = "second" /\ main' = main

NextPoint == ConfigureBackground \/ FirstClear \/ FirstPoint \/ SecondPoint

SpecPoint == Init /\ [][NextPoint]_vars

\* Both point calls went to the same pixel of the framebuffer.
SamePixelTwice ==
  /\ pc = "second"
  /\ Len(writes) = 2
  /\ writes[1].x = writes[2].x
  /\ writes[1].y = writes[2].y

\* C2 as stated: after point(x,y,c1,d1) then point(x,y,c2,d2) on a cleared
\* framebuffer the pixel holds c2 and d2 if d2 < d1, c1 and d1 if d2 > d1,
\* and c1 if d2 = d1.
C2_TwoWritesOrdering ==
  SamePixelTwice =>
    LET w1 == writes[1]
        w2 == writes[2]
        col == StoredColor(w1.x, w1.y)
        dep == StoredDepth(w1.x, w1.y)
    IN /\ FLt(w2.depth, w1.depth) => col = PackColor(w2.color) /\ dep = w2.depth
       /\ FLt(w1.depth, w2.depth) => col = PackColor(w1.color) /\ dep = w1.depth
       /\ (w1.depth = w2.depth /\ w1.depth.k # "nan") => col = PackColor(w1.color)

\* C2 amended: after point(x,y,c1,d1) then point(x,y,c2,d2) on a cleared
\* framebuffer the pixel holds c2 and d2 if d2 < d1, c1 and d1 if d2 > d1,
\* c1 and d1 if d2 = d1 < +infinity, and the background color with depth
\* +infinity if d2 = d1 = +infinity (both writes are rejected).
C2_TwoWritesOrderingBelowInfinity ==
  SamePixelTwice =>
    LET w1 == writes[1]
        w2 == writes[2]
        col == StoredColor(w1.x, w1.y)
        dep == StoredDepth(w1.x, w1.y)
    IN /\ FLt(w2.depth, w1.depth) => col = PackColor(w2.color) /\ dep = w2.depth
       /\ FLt(w1.depth, w2.depth) => col = PackColor(w1.color) /\ dep = w1.depth
       /\ (w1.depth = w2.depth /\ FLt(w1.depth, PosInf)) =>
            col = PackColor(w1.color) /\ dep = w1.depth
       /\ (w1.depth = PosInf /\ w2.depth = PosInf) => col = clear_bg /\ dep = PosInf

\* Two writes of different colors at the same finite depth; the first stays.
C2_Witness ==
  /\ SamePixelTwice
  /\ writes[1].depth = Fin(1)
  /\ writes[2].depth = Fin(1)
  /\ PackColor(writes[1].color) # PackColor(writes[2].color)
  /\ StoredColor(writes[1].x, writes[1].y) = PackColor(writes[1].color)

\* The arguments of the last call, when it was a point call.
LastX == last.args[1]
LastY == last.args[2]
LastColor == last.args[3]
LastDepth == last.args[4]

\* C3: a point call with x < 0, x >= width, y < 0 or y >= height changes no
\* cell of the color buffer or the depth buffer and does not panic.
C3_OutOfBoundsPointIsNoOp ==
  [][(/\ last'.op = "point"
      /\ \/ last'.args[1] < 0 \/ last'.args[1] >= fb.width
         \/ last'.args[2] < 0 \/ last'.args[2] >= fb.height)
     => /\ fb'.color_buffer = fb.color_buffer
        /\ fb'.depth_buffer = fb.depth_buffer
        /\ ~panicked']_vars

\* An out-of-bounds call that would have passed the depth test, made on a
\* framebuffer that already holds a written pixel.
C3_Witness ==
  /\ pc = "second"
  /\ last.op = "point"
  /\ LastX = fb.width
  /\ LastY = 0
  /\ LastDepth = NegInf
  /\ Len(writes) = 1
  /\ StoredDepth(writes[1].x, writes[1].y) = Fin(1)

\* What a channel must hold for a component c: 0 below 0.0, 255 above 1.0,
\* the truncated c * 255 in between (and 0 for NaN, which the cast gives).
ExpectedChannel(c) ==
  CASE c.k = "nan" -> 0
    [] c.k = "inf" -> IF c.v < 0 THEN 0 ELSE 255
    [] c.v < 0 -> 0
    [] c.v > 255 * Sub -> 255
    [] OTHER -> c.v \div Sub

\* C8: when a point call passes the depth test, every stored channel is the
\* component clamped to [0,1] and scaled to 0..255: 0 for a component below
\* 0, 255 for one above 1, never a wrapped value; alpha is 255.
C8_StoredChannelsAreClamped ==
  [][(/\ last'.op = "point"
      /\ <<last'.args[1], last'.args[2]>> \in DOMAIN fb.color_buffer
      /\ FLt(last'.args[4], fb.depth_buffer[last'.args[2] * fb.width + last'.args[1]]))
     => LET col == fb'.color_buffer[<<last'.args[1], last'.args[2]>>]
            c == last'.args[3]
        IN /\ col.r = ExpectedChannel(c[1])
           /\ col.g = ExpectedChannel(c[2])
           /\ col.b = ExpectedChannel(c[3])
           /\ col.a = 255
           /\ {col.r, col.g, col.b} \subseteq 0 .. 255]_vars

\* A write with components 2.0, -1.0 and NaN passed the test and is stored
\* as 255, 0, 0.
C8_Witness ==
  /\ last.op = "point"
  /\ LastColor = ColorB
  /\ <<LastX, LastY>> \in DOMAIN fb.color_buffer
  /\ StoredDepth(LastX, LastY) = LastDepth
  /\ Len(WritesAt(LastX, LastY)) = 1
  /\ StoredColor(LastX, LastY) = Color(255, 0, 0, 255)

\* C9: calling point(x,y,color,depth) twice on a freshly cleared framebuffer
\* leaves the same color buffer and depth buffer as calling it once.
C9_PointIsIdempotent ==
  (SamePixelTwice /\ writes[1] = writes[2]) =>
    LET once == Point(FreshFb, writes[1].x, writes[1].y, writes[1].color, writes[1].depth)
    IN /\ fb.color_buffer = once.color_buffer
       /\ fb.depth_buffer = once.depth_buffer

\* The same accepted write was made twice.
C9_Witness ==
  /\ SamePixelTwice
  /\ writes[1] = writes[2]
  /\ is_finite(writes[1].depth)
  /\ StoredDepth(writes[1].x, writes[1].y) = writes[1].depth
  /\ StoredColor(writes[1].x, writes[1].y) = PackColor(writes[1].color)

(***************************************************************************)
(* A line drawn over one earlier pixel (SpecLine)                          *)
(***************************************************************************)
Amber == Color(200, 100, 0, 255)

LineColors == {OrbitColor, Amber}
LineDepths == {Fin(2), NaN}
Depths3 == {Fin(1), Fin(2), Fin(3)}

InitLine == InitFb(LineFbWidth, 1)

LineClear == pc = "new" /\ ClearOp /\ pc' = "cleared" /\ main' = main

LinePoint ==
  /\ pc = "cleared"
  /\ \E p \in DOMAIN fb.color_buffer : \E depth \in Depths3 :
       PointOp(p[1], p[2], ColorA, depth)
  /\ pc' = "first" /\ main' = main

LineDraw ==
  /\ pc = "first"
  /\ \E p \in Around(fb) : \E q \in Around(fb) :
       \E color \in LineColors : \E depth \in LineDepths :
         DrawLineOp(p[1], p[2], q[1], q[2], color, depth)
  /\ pc' = "line" /\ main' = main

NextLine == LineClear \/ LinePoint \/ LineDraw

SpecLine == InitLine /\ [][NextLine]_vars

Between(a, b) == IF a <= b THEN a .. b ELSE b .. a

\* The pixels of the path from (x0,y0) to (x1,y1): written out for
\* horizontal, vertical and diagonal lines, and for the others the pixels
\* the loop visits together with both end points.
PathPixels(x0, y0, x1, y1) ==
  IF y0 = y1 THEN {<<x, y0>> : x \in Between(x0, x1)}
  ELSE IF x0 = x1 THEN {<<x0, y>> : y \in Between(y0, y1)}
  ELSE IF Abs(x1 - x0) = Abs(y1 - y0)
       THEN {<<x0 + (IF x0 < x1 THEN k ELSE -k), y0 + (IF y0 < y1 THEN k ELSE -k)>> :
               k \in 0 .. Abs(x1 - x0)}
  ELSE {LinePath(x0, y0, x1, y1)[i] : i \in 1 .. Len(LinePath(x0, y0, x1, y1))}
         \cup {<<x0, y0>>, <<x1, y1>>}

\* C10 as stated: draw_line_with_depth leaves a path pixel alone when its
\* stored depth is smaller than or equal to the line's depth, gives every
\* other in-bounds path pixel the line's color and depth, and changes no
\* pixel off the path.
C10_LineIsDepthTestedPath ==
  [][last'.op = "draw_line_with_depth" =>
       LET a == last'.args
           path == PathPixels(a[1], a[2], a[3], a[4])
       IN \A p \in DOMAIN fb.color_buffer :
            LET i == p[2] * fb.width + p[1]
                old == fb.depth_buffer[i]
            IN IF p \in path /\ ~(FLt(old, a[6]) \/ old = a[6])
               THEN fb'.color_buffer[p] = a[5] /\ fb'.depth_buffer[i] = a[6]
               ELSE fb'.color_buffer[p] = fb.color_buffer[p] /\ fb'.depth_buffer[i] = old]_vars

\* C10 amended: draw_line_with_depth changes exactly the in-bounds path
\* pixels whose stored depth is strictly greater than the line's depth (none
\* when the line's depth is NaN); each of them takes the red, green and blue
\* of the line's color with alpha 255 (the alpha of the line's color is not
\* used) and the line's depth; both end points are on the path.
C10_LineIsDepthTestedOpaquePath ==
  [][last'.op = "draw_line_with_depth" =>
       LET a == last'.args
           path == PathPixels(a[1], a[2], a[3], a[4])
       IN \A p \in DOMAIN fb.color_buffer :
            LET i == p[2] * fb.width + p[1]
                old == fb.depth_buffer[i]
            IN IF p \in path /\ FLt(a[6], old)
               THEN /\ fb'.color_buffer[p] = Color(a[5].r, a[5].g, a[5].b, 255)
                    /\ fb'.depth_buffer[i] = a[6]
               ELSE fb'.color_buffer[p] = fb.color_buffer[p] /\ fb'.depth_buffer[i] = old]_vars

\* The line (0,0)-(5,0) at depth 2 was drawn over pixel (2,0) stored at
\* depth 1: (2,0) is as it was and the five other pixels hold the line.
C10_Witness ==
  /\ pc = "line"
  /\ last.op = "draw_line_with_depth"
  /\ <<last.args[1], last.args[2], last.args[3], last.args[4]>> = <<0, 0, 5, 0>>
  /\ last.args[5] = Amber
  /\ last.args[6] = Fin(2)
  /\ fb.depth_buffer[2] = Fin(1)
  /\ fb.color_buffer[<<2, 0>>] = PackColor(ColorA)
  /\ \A x \in {0, 1, 3, 4, 5} :
       fb.depth_buffer[x] = Fin(2) /\ fb.color_buffer[<<x, 0>>] = Amber

(***************************************************************************)
(* The vertex transform stage (SpecVertex)                                 *)
(*                                                                         *)
(* Coordinates and matrix entries are exact ratios: Ratio(n, d) is the     *)
(* finite value n / d in lowest terms; NaN, PosInf and NegInf are as       *)
(* above.  The inputs are small, so no operation rounds; the sign of zero  *)
(* is not kept.                                                            *)
(***************************************************************************)
RECURSIVE GCD(_, _)
GCD(a, b) == IF b = 0 THEN a ELSE GCD(b, a % b)

Ratio(n, d) ==
  LET g == GCD(Abs(n), Abs(d))
      s == IF d < 0 THEN -1 ELSE 1
  IN [k |-> "fin", v |-> <<s * (n \div g), Abs(d) \div g>>]

Whole(n) == Ratio(n, 1)

Sign(a) ==
  CASE a.k = "inf" -> a.v
    [] a.k = "fin" -> (IF a.v[1] > 0 THEN 1 ELSE IF a.v[1] < 0 THEN -1 ELSE 0)
    [] OTHER -> 0

Inf(s) == IF s > 0 THEN PosInf ELSE NegInf

\* a == 0.0
IsZero(a) == a.k = "fin" /\ a.v[1] = 0

\* a * b
FMul(a, b) ==
  CASE a.k = "nan" \/ b.k = "nan" -> NaN
    [] a.k = "fin" /\ b.k = "fin" -> Ratio(a.v[1] * b.v[1], a.v[2] * b.v[2])
    [] IsZero(a) \/ IsZero(b) -> NaN
    [] OTHER -> Inf(Sign(a) * Sign(b))

\* a + b
FAdd(a, b) ==
  CASE a.k = "nan" \/ b.k = "nan" -> NaN
    [] a.k = "fin" /\ b.k = "fin" ->
         Ratio(a.v[1] * b.v[2] + b.v[1] * a.v[2], a.v[2] * b.v[2])
    [] a.k = "inf" /\ b.k = "inf" -> (IF a.v = b.v THEN a ELSE NaN)
    [] a.k = "inf" -> a
    [] OTHER -> b

\* a / b, a zero divisor included
FDiv(a, b) ==
  CASE a.k = "nan" \/ b.k = "nan" -> NaN
    [] a.k = "inf" /\ b.k = "inf" -> NaN
    [] b.k = "inf" -> Whole(0)
    [] IsZero(b) -> (IF IsZero(a) THEN NaN ELSE Inf(Sign(a)))
    [] a.k = "inf" -> Inf(Sign(a) * Sign(b))
    [] OTHER -> Ratio(a.v[1] * b.v[2], a.v[2] * b.v[1])

Vector3(x, y, z) == <<x, y, z>>
Vector4(x, y, z, w) == <<x, y, z, w>>

\* The standard product of a 4x4 matrix (four rows) and a column vector.
RowTimes(row, v) ==
  FAdd(FAdd(FMul(row[1], v[1]), FMul(row[2], v[2])),
       FAdd(FMul(row[3], v[3]), FMul(row[4], v[4])))

multiply_matrix_vector4(m, v) ==
  <<RowTimes(m[1], v), RowTimes(m[2], v), RowTimes(m[3], v), RowTimes(m[4], v)>>

Vertex(position, normal, tex_coords, color, transformed_position, transformed_normal) ==
  [position |-> position, normal |-> normal, tex_coords |-> tex_coords,
   color |-> color, transformed_position |-> transformed_position,
   transformed_normal |-> transformed_normal]

Uniforms(model_matrix, view_matrix, projection_matrix, viewport_matrix) ==
  [model_matrix |-> model_matrix, view_matrix |-> view_matrix,
   projection_matrix |-> projection_matrix, viewport_matrix |-> viewport_matrix]

ScreenPosition(ndc, uniforms) ==
  multiply_matrix_vector4(uniforms.viewport_matrix,
                          Vector4(ndc[1], ndc[2], ndc[3], Whole(1)))

ClipPosition(vertex, uniforms) ==
  LET position_vec4 == Vector4(vertex.position[1], vertex.position[2],
                               vertex.position[3], Whole(1))
      world_position == multiply_matrix_vector4(uniforms.model_matrix, position_vec4)
      view_position == multiply_matrix_vector4(uniforms.view_matrix, world_position)
  IN multiply_matrix_vector4(uniforms.projection_matrix, view_position)

\* A perspective divide without the test for w.
NdcAlwaysDivides(clip_position) ==
  Vector3(FDiv(clip_position[1], clip_position[4]),
          FDiv(clip_position[2], clip_position[4]),
          FDiv(clip_position[3], clip_position[4]))

\* let ndc = if clip_position.w != 0.0 { clip.xyz / clip.w } else { clip.xyz }
Ndc(clip_position) ==
  IF ~IsZero(clip_position[4])
  THEN Vector3(FDiv(clip_position[1], clip_position[4]),
               FDiv(clip_position[2], clip_position[4]),
               FDiv(clip_position[3], clip_position[4]))
  ELSE Vector3(clip_position[1], clip_position[2], clip_position[3])

vertex_shader(vertex, uniforms) ==
  LET clip_position == ClipPosition(vertex, uniforms)
      ndc == Ndc(clip_position)
      screen_position == ScreenPosition(ndc, uniforms)
  IN Vertex(vertex.position, vertex.normal, vertex.tex_coords, vertex.color,
            Vector3(screen_position[1], screen_position[2], screen_position[3]),
            vertex.normal)

VertexShaderOp(vertex, uniforms) ==
  /\ ~panicked
  /\ last' = [op |-> "vertex_shader",
              args |-> <<vertex, uniforms, vertex_shader(vertex, uniforms)>>]
  /\ UNCHANGED <<fb, panicked, writes, clear_bg, bg_given>>

Row(a, b, c, d) == <<Whole(a), Whole(b), Whole(c), Whole(d)>>

Identity == <<Row(1, 0, 0, 0), Row(0, 1, 0, 0), Row(0, 0, 1, 0), Row(0, 0, 0, 1)>>

\* A quarter turn about z, and the same turn scaled by 2 and moved by (1, 0, -1).
QuarterTurnZ == <<Row(0, -1, 0, 0), Row(1, 0, 0, 0), Row(0, 0, 1, 0), Row(0, 0, 0, 1)>>
TurnScaleMove == <<Row(0, -2, 0, 1), Row(2, 0, 0, 0), Row(0, 0, 2, -1), Row(0, 0, 0, 1)>>

\* Projections: w = -z (a perspective), w = 2, w = 0 whatever the vertex, and
\* w = NaN.
PerspectiveW == <<Row(1, 0, 0, 0), Row(0, 1, 0, 0), Row(0, 0, 1, 0), Row(0, 0, -1, 0)>>
HalvingW == <<Row(1, 0, 0, 0), Row(0, 1, 0, 0), Row(0, 0, 1, 0), Row(0, 0, 0, 2)>>
ZeroW == <<Row(1, 0, 0, 0), Row(0, 1, 0, 0), Row(0, 0, 1, 0), Row(0, 0, 0, 0)>>
NaNW == <<Row(1, 0, 0, 0), Row(0, 1, 0, 0), Row(0, 0, 1, 0), <<Whole(0), Whole(0), Whole(0), NaN>>>>

\* NDC [-1, 1] to the pixels of a w x h framebuffer, depth passed through.
ViewportFor(w, h) ==
  <<<<Ratio(w, 2), Whole(0), Whole(0), Ratio(w, 2)>>,
    <<Whole(0), Ratio(h, 2), Whole(0), Ratio(h, 2)>>,
    Row(0, 0, 1, 0), Row(0, 0, 0, 1)>>

ModelMatrices == {Identity, QuarterTurnZ, TurnScaleMove}
ProjectionMatrices == {PerspectiveW, HalvingW, ZeroW, NaNW}
ViewportMatrices == {Identity, ViewportFor(FbWidth, FbHeight)}

UniformsSet ==
  {Uniforms(m, Identity, p, v) :
     m \in ModelMatrices, p \in ProjectionMatrices, v \in ViewportMatrices}

Whole3(x, y, z) == Vector3(Whole(x), Whole(y), Whole(z))

Positions == {Whole3(0, 0, 0), Whole3(1, 2, -1), Whole3(-3, 1, 2), Whole3(2, 0, 1)}
Normals == {Whole3(1, 0, 0), Whole3(0, 1, 0), Whole3(0, 0, -1)}

\* Mesh vertices as loaded: the transformed fields start at zero.
MeshVertex(position, normal) ==
  Vertex(position, normal, <<Whole(0), Whole(1)>>, ColorA, Whole3(0, 0, 0), Whole3(0, 0, 0))

Vertices == {MeshVertex(position, normal) : position \in Positions, normal \in Normals}

SomeVertexShader ==
  /\ pc = "new"
  /\ \E vertex \in Vertices : \E uniforms \in UniformsSet : VertexShaderOp(vertex, uniforms)
  /\ pc' = "shaded" /\ main' = main

NextVertex == SomeVertexShader

SpecVertex == Init /\ [][NextVertex]_vars

\* The rotation of a model matrix applied to a direction: the matrix times
\* (n, 0), which leaves the translation out.
Rotated(model_matrix, n) ==
  LET r == multiply_matrix_vector4(model_matrix, Vector4(n[1], n[2], n[3], Whole(0)))
  IN Vector3(r[1], r[2], r[3])

\* A vector along one axis is normalized by keeping only its sign.
AlongAxis(v) == Cardinality({i \in 1 .. 3 : ~IsZero(v[i])}) = 1
Normalized(v) == <<Whole(Sign(v[1])), Whole(Sign(v[2])), Whole(Sign(v[3]))>>

\* C17: vertex_shader returns transformed_normal equal to the input normal
\* rotated by the model matrix and re-normalized, and copies position,
\* normal, tex_coords and color from the input vertex.
C17_NormalIsRotatedAndRenormalized ==
  last.op = "vertex_shader" =>
    LET vertex == last.args[1]
        uniforms == last.args[2]
        out == last.args[3]
        turned == Rotated(uniforms.model_matrix, vertex.normal)
    IN /\ AlongAxis(turned) => out.transformed_normal = Normalized(turned)
       /\ out.position = vertex.position
       /\ out.normal = vertex.normal
       /\ out.tex_coords = vertex.tex_coords
       /\ out.color = vertex.color

\* C18: when clip w is nonzero the NDC coordinates are clip.xyz divided by w,
\* when w is exactly zero they are clip.xyz unmodified (nothing is divided by
\* zero), and vertex_shader signals no error; the screen position is the
\* viewport matrix applied to those NDC coordinates.
C18_PerspectiveDivideSkipsZeroW ==
  last.op = "vertex_shader" =>
    LET vertex == last.args[1]
        uniforms == last.args[2]
        out == last.args[3]
        clip == ClipPosition(vertex, uniforms)
        expected ==
          IF clip[4] = Whole(0)
          THEN Vector3(clip[1], clip[2], clip[3])
          ELSE Vector3(FDiv(clip[1], clip[4]), FDiv(clip[2], clip[4]), FDiv(clip[3], clip[4]))
        screen == ScreenPosition(expected, uniforms)
    IN /\ out.transformed_position = Vector3(screen[1], screen[2], screen[3])
       /\ clip[4] = Whole(0) /\ (\A i \in 1 .. 3 : is_finite(clip[i])) =>
            \A i \in 1 .. 3 : is_finite(out.transformed_position[i])
       /\ ~panicked

\* A vertex away from the origin whose clip w is zero: its screen position is
\* the viewport image of the clip coordinates themselves.
C18_Witness ==
  /\ last.op = "vertex_shader"
  /\ ClipPosition(last.args[1], last.args[2])[4] = Whole(0)
  /\ ClipPosition(last.args[1], last.args[2])[1] # Whole(0)
  /\ last.args[2].viewport_matrix = Identity
  /\ last.args[3].transformed_position[1] = ClipPosition(last.args[1], last.args[2])[1]

(***************************************************************************)
(* render: its fragment loop on the fragments of one triangle (SpecRender) *)
(***************************************************************************)
Fragment(position, depth, color) == [position |-> position, depth |-> depth, color |-> color]

\* A conversion that drops the fraction instead of rounding to nearest.
RoundToZero(a) ==
  IF a.k # "fin" THEN a
  ELSE IF a.v >= 0 THEN Fin((a.v \div Sub) * Sub)
  ELSE Fin(-(((-a.v) \div Sub) * Sub))

\* f32::round on a screen coordinate (numerator over Sub): nearest integer,
\* halves away from zero.
Round(a) ==
  IF a.k # "fin" THEN a
  ELSE IF a.v >= 0 THEN Fin(((2 * a.v + Sub) \div (2 * Sub)) * Sub)
  ELSE Fin(-(((2 * (-a.v) + Sub) \div (2 * Sub)) * Sub))

\* `as i32` on a screen coordinate: truncation, NaN gives 0, saturating.
AsI32(a) ==
  CASE a.k = "nan" -> 0
    [] a.k = "inf" -> IF a.v > 0 THEN 2147483647 ELSE -2147483647 - 1
    [] OTHER -> IF a.v >= 0 THEN a.v \div Sub ELSE -((-a.v) \div Sub)

\* A match whose Uranus arm was copied from the Mars arm.
ShaderForMarsTwice(planet_type) ==
  CASE planet_type = "Sun" -> "sun_fragment_shader"
    [] planet_type = "Mercury" -> "mercury_fragment_shader"
    [] planet_type = "Earth" -> "earth_fragment_shader"
    [] planet_type = "Mars" -> "mars_fragment_shader"
    [] planet_type = "Uranus" -> "mars_fragment_shader"
    [] planet_type = "Nave" -> "nave_fragment_shader"
    [] planet_type = "Skybox" -> "skybox_fragment_shader"
    [] OTHER -> "fragment_shader"

\* The match on planet_type.
ShaderFor(planet_type) ==
  CASE planet_type = "Sun" -> "sun_fragment_shader"
    [] planet_type = "Mercury" -> "mercury_fragment_shader"
    [] planet_type = "Earth" -> "earth_fragment_shader"
    [] planet_type = "Mars" -> "mars_fragment_shader"
    [] planet_type = "Uranus" -> "uranus_fragment_shader"
    [] planet_type = "Nave" -> "nave_fragment_shader"
    [] planet_type = "Skybox" -> "skybox_fragment_shader"
    [] OTHER -> "fragment_shader"

\* The color a shader returns.  The procedural shaders compute theirs from
\* world_position and time; that value is the input `procedural`.
Shade(shader, fragment, procedural) ==
  CASE shader = "fragment_shader" -> fragment.color
    [] shader = "skybox_fragment_shader" -> <<Fin(One), Fin(One), Fin(One)>>
    [] OTHER -> procedural

\* A grouping that starts a triangle at every vertex.
RECURSIVE TrianglesSliding(_, _)
TrianglesSliding(transformed_vertices, i) ==
  IF i >= Len(transformed_vertices) THEN << >>
  ELSE (IF i + 2 < Len(transformed_vertices)
        THEN << <<transformed_vertices[i + 1], transformed_vertices[i + 2],
                  transformed_vertices[i + 3]>> >>
        ELSE << >>)
       \o TrianglesSliding(transformed_vertices, i + 1)

\* for i in (0..len).step_by(3) { if i + 2 < len { push [i], [i+1], [i+2] } },
\* with i counted from 0 as in the code.
RECURSIVE Triangles(_, _)
Triangles(transformed_vertices, i) ==
  IF i >= Len(transformed_vertices) THEN << >>
  ELSE (IF i + 2 < Len(transformed_vertices)
        THEN << <<transformed_vertices[i + 1], transformed_vertices[i + 2],
                  transformed_vertices[i + 3]>> >>
        ELSE << >>)
       \o Triangles(transformed_vertices, i + 3)

\* for vertex in vertex_array { transformed_vertices.push(vertex_shader(..)) }
RECURSIVE TransformedVertices(_, _)
TransformedVertices(vertex_array, uniforms) ==
  IF vertex_array = << >> THEN << >>
  ELSE <<vertex_shader(Head(vertex_array), uniforms)>>
       \o TransformedVertices(Tail(vertex_array), uniforms)

\* fragments.extend(triangle(..)) for each triangle in turn.  raster[k] is
\* the sequence of fragments the rasterizer returns for triangle k.
RECURSIVE Rasterized(_, _, _)
Rasterized(triangles, raster, k) ==
  IF k > Len(triangles) THEN << >>
  ELSE raster[k] \o Rasterized(triangles, raster, k + 1)

\* The point calls of the fragment loop, each with the index of its fragment.
RECURSIVE RenderLoop(_, _, _, _, _)
RenderLoop(f, planet_type, fragments, procedural, i) ==
  IF i > Len(fragments) THEN << >>
  ELSE LET fragment == fragments[i]
           sx == AsI32(Round(fragment.position[1]))
           sy == AsI32(Round(fragment.position[2]))
           rest == RenderLoop(f, planet_type, fragments, procedural, i + 1)
       IN IF \/ ~is_finite(fragment.position[1])
             \/ ~is_finite(fragment.position[2])
             \/ ~is_finite(fragment.depth)
          THEN rest
          ELSE IF sx < 0 \/ sx >= f.width \/ sy < 0 \/ sy >= f.height
          THEN rest
          ELSE << [frag |-> i, x |-> sx, y |-> sy,
                   shader |-> ShaderFor(planet_type),
                   color |-> Shade(ShaderFor(planet_type), fragment, procedural[i]),
                   depth |-> fragment.depth] >> \o rest

PlainCalls(calls) ==
  [i \in 1 .. Len(calls) |-> Call(calls[i].x, calls[i].y, calls[i].color, calls[i].depth)]

\* render from its second loop on.  procedural[i] is what a procedural
\* shader returns for fragment i.  last.args keeps the locals of the call.
RenderTransformed(vertex_array, transformed_vertices, planet_type, raster, procedural) ==
  LET triangles == Triangles(transformed_vertices, 0)
      fragments == Rasterized(triangles, raster, 1)
      calls == RenderLoop(fb, planet_type, fragments, procedural, 1)
  IN /\ ~panicked
     /\ fb' = PointAll(fb, calls)
     /\ panicked' = AnyPanics(fb, calls)
     /\ writes' = writes \o Addressed(fb, PlainCalls(calls))
     /\ last' = [op |-> "render",
                 args |-> <<planet_type, fragments, calls, vertex_array,
                            transformed_vertices, triangles, raster>>]
     /\ UNCHANGED <<clear_bg, bg_given>>

\* render: the vertex loop, then the rest.
RenderOp(uniforms, vertex_array, planet_type, raster, procedural) ==
  RenderTransformed(vertex_array, TransformedVertices(vertex_array, uniforms),
                    planet_type, raster, procedural)

\* The number of triangles render makes of n vertices.
NumTriangles(n) == Len(Triangles([i \in 1 .. n |-> i], 0))

\* One triangle, for renders whose input is the fragments of the rasterizer.
OneTriangle ==
  <<MeshVertex(Whole3(0, 0, 0), Whole3(0, 0, -1)),
    MeshVertex(Whole3(2, 0, 1), Whole3(0, 0, -1)),
    MeshVertex(Whole3(1, 2, -1), Whole3(0, 0, -1))>>

PlainUniforms == Uniforms(Identity, Identity, HalvingW, ViewportFor(FbWidth, FbHeight))

\* What the vertex loop of render makes of OneTriangle under PlainUniforms.
OneTriangleTransformed == TransformedVertices(OneTriangle, PlainUniforms)

\* Screen positions: half a pixel either side of the first column, and just
\* under half a pixel short of the column past the last.
FragmentXs == {NaN, Fin(-(Sub \div 2)), Fin(1), Fin(Sub * FbWidth - Sub \div 2)}
FragmentYs == {Fin(0), PosInf, Fin(Sub * FbHeight)}
FragmentDepths == {Fin(1), NaN}

\* The rasterizer's fragments: one off the framebuffer in x, or not finite in
\* x, has the usual y and depth.
FragmentPlaces ==
  {t \in FragmentXs \X FragmentYs \X FragmentDepths :
     t[1] = Fin(1) \/ (t[2] = Fin(0) /\ t[3] = Fin(1))}

Fragments ==
  {Fragment(<<t[1], t[2]>>, t[3], color) : t \in FragmentPlaces, color \in Colors2}

PlanetTypes == {"Skybox", "Earth", "Asteroid"}

\* Values a procedural shader returns: finite, possibly above 1.0 (the sun
\* shader caps its red at 2.0).
ColorOver == <<Fin(2 * One), Fin(One), Fin(One \div 2)>>
ProceduralColors == {ColorA, ColorOver}

FragmentLists == UNION {[1 .. n -> Fragments] : n \in 0 .. MaxFrags}

RenderClear == pc = "new" /\ ClearOp /\ pc' = "cleared" /\ main' = main

SomeRender ==
  /\ pc = "cleared"
  /\ \E planet_type \in PlanetTypes : \E fragments \in FragmentLists :
       \E procedural \in [1 .. Len(fragments) -> ProceduralColors] :
         /\ ShaderFor(planet_type) \in {"fragment_shader", "skybox_fragment_shader"} =>
              \A i \in 1 .. Len(fragments) : procedural[i] = ColorA
         /\ RenderTransformed(OneTriangle, OneTriangleTransformed, planet_type,
                              <<fragments>>, procedural)
  /\ pc' = "rendered" /\ main' = main

NextRender == RenderClear \/ SomeRender

SpecRender == Init /\ [][NextRender]_vars

IsFiniteColor(color) == is_finite(color[1]) /\ is_finite(color[2]) /\ is_finite(color[3])

\* C5: render makes no point call for a fragment whose shaded color has a
\* non-finite component: every color render hands to point is finite.
C5_NonFiniteColorIsDiscarded ==
  last.op = "render" =>
    \A i \in 1 .. Len(last.args[3]) : IsFiniteColor(last.args[3][i].color)

\* A fragment the fragment loop must skip: a non-finite screen x, screen y or
\* depth, or a position whose nearest pixel (halves away from zero) is not a
\* pixel of the framebuffer.
NearestInside(a, n) == -Sub < 2 * a.v /\ 2 * a.v < 2 * Sub * n - Sub

MustSkip(f, fragment) ==
  \/ ~is_finite(fragment.position[1])
  \/ ~is_finite(fragment.position[2])
  \/ ~is_finite(fragment.depth)
  \/ ~NearestInside(fragment.position[1], f.width)
  \/ ~NearestInside(fragment.position[2], f.height)

\* C11: render makes no point call for a fragment whose screen x, screen y
\* or depth is non-finite or whose rounded position is outside the
\* framebuffer; every point call of render has in-bounds coordinates and a
\* finite depth.
C11_RenderSkipsUnusableFragments ==
  last.op = "render" =>
    LET fragments == last.args[2]
        calls == last.args[3]
    IN /\ \A i \in 1 .. Len(fragments) :
            MustSkip(fb, fragments[i]) => \A j \in 1 .. Len(calls) : calls[j].frag # i
       /\ \A j \in 1 .. Len(calls) :
            /\ calls[j].x \in 0 .. fb.width - 1
            /\ calls[j].y \in 0 .. fb.height - 1
            /\ is_finite(calls[j].depth)

\* A render of two fragments: the first half a pixel left of column 0 and
\* skipped, the second written.
C11_Witness ==
  /\ last.op = "render"
  /\ Len(last.args[2]) = 2
  /\ last.args[2][1].position[1] = Fin(-(Sub \div 2))
  /\ is_finite(last.args[2][1].position[2])
  /\ is_finite(last.args[2][1].depth)
  /\ Len(last.args[3]) = 1
  /\ last.args[3][1].frag = 2

(***************************************************************************)
(* render on meshes of up to MaxVerts vertices (SpecMesh)                  *)
(***************************************************************************)
MeshVertices == {MeshVertex(Whole3(1, 2, -1), Whole3(1, 0, 0)),
                 MeshVertex(Whole3(2, 0, 1), Whole3(0, 1, 0))}

VertexArrays == UNION {[1 .. n -> MeshVertices] : n \in 0 .. MaxVerts}

MeshUniforms == {PlainUniforms, Uniforms(QuarterTurnZ, Identity, PerspectiveW, Identity)}

\* What the rasterizer may return for a triangle: nothing, one fragment, or
\* two fragments on different pixels.
NearFragment == Fragment(<<Fin(0), Fin(0)>>, Fin(1), ColorA)
FarFragment == Fragment(<<Fin(Sub), Fin(0)>>, Fin(2), ColorB)
RasterOutputs == {<< >>, <<NearFragment>>, <<FarFragment, NearFragment>>}

MeshClear == pc = "new" /\ ClearOp /\ pc' = "cleared" /\ main' = main

MeshRender ==
  /\ pc = "cleared"
  /\ \E vertex_array \in VertexArrays : \E uniforms \in MeshUniforms :
       \E raster \in [1 .. NumTriangles(Len(vertex_array)) -> RasterOutputs] :
         RenderOp(uniforms, vertex_array, "Asteroid", raster,
                  [i \in 1 .. 2 * Len(raster) |-> ColorA])
  /\ pc' = "rendered" /\ main' = main

NextMesh == MeshClear \/ MeshRender

SpecMesh == Init /\ [][NextMesh]_vars

RECURSIVE TotalLen(_)
TotalLen(seqs) == IF seqs = << >> THEN 0 ELSE Len(Head(seqs)) + TotalLen(Tail(seqs))

\* C15: of n input vertices render makes n transformed vertices in input
\* order and floor(n/3) triangles, triangle k being the transforms of
\* vertices 3k, 3k+1, 3k+2 (counted from 0); a trailing group of 1 or 2
\* vertices makes no triangle and no fragment, and n < 3 makes no write.
C15_TrianglesAreConsecutiveTriples ==
  last.op = "render" =>
    LET fragments == last.args[2]
        calls == last.args[3]
        vertex_array == last.args[4]
        transformed_vertices == last.args[5]
        triangles == last.args[6]
        raster == last.args[7]
        n == Len(vertex_array)
    IN /\ Len(transformed_vertices) = n
       /\ \A i \in 1 .. n :
            /\ transformed_vertices[i].position = vertex_array[i].position
            /\ transformed_vertices[i].normal = vertex_array[i].normal
       /\ Len(triangles) = n \div 3
       /\ \A k \in 0 .. (n \div 3) - 1 :
            triangles[k + 1] = <<transformed_vertices[3 * k + 1],
                                 transformed_vertices[3 * k + 2],
                                 transformed_vertices[3 * k + 3]>>
       /\ Len(raster) = n \div 3
       /\ Len(fragments) = TotalLen(raster)
       /\ n < 3 => /\ fragments = << >>
                   /\ calls = << >>
                   /\ writes = << >>
                   /\ \A i \in DOMAIN fb.depth_buffer : fb.depth_buffer[i] = PosInf

\* Five vertices: one triangle, whose fragment is written, and a trailing
\* pair that makes nothing.
C15_Witness ==
  /\ last.op = "render"
  /\ Len(last.args[4]) = 5
  /\ last.args[4][1] # last.args[4][2]
  /\ Len(last.args[6]) = 1
  /\ Len(last.args[2]) = 1
  /\ Len(last.args[3]) = 1
  /\ writes # << >>


(***************************************************************************)
(* render under every surface tag (SpecShade)                              *)
(***************************************************************************)
RecognizedTags == {"Sun", "Mercury", "Earth", "Mars", "Uranus", "Nave", "Skybox"}

\* Tags no arm of the match names: the match compares whole strings, case
\* included.
OtherTags == {"Asteroid", "earth", ""}

ShadeFragmentLists == UNION {[1 .. n -> {NearFragment, FarFragment}] : n \in 0 .. MaxFrags}

ShadeClear == pc = "new" /\ ClearOp /\ pc' = "cleared" /\ main' = main

ShadeRender ==
  /\ pc = "cleared"
  /\ \E planet_type \in RecognizedTags \cup OtherTags :
       \E uniforms \in MeshUniforms : \E fragments \in ShadeFragmentLists :
         \E procedural \in [1 .. Len(fragments) -> ProceduralColors] :
           /\ ShaderFor(planet_type) \in {"fragment_shader", "skybox_fragment_shader"} =>
                \A i \in 1 .. Len(fragments) : procedural[i] = ColorA
           /\ RenderOp(uniforms, OneTriangle, planet_type, <<fragments>>, procedural)
  /\ pc' = "rendered" /\ main' = main

NextShade == ShadeClear \/ ShadeRender

SpecShade == Init /\ [][NextShade]_vars

\* The shading function each recognized tag names.
OwnShader(tag) ==
  CASE tag = "Sun" -> "sun_fragment_shader"
    [] tag = "Mercury" -> "mercury_fragment_shader"
    [] tag = "Earth" -> "earth_fragment_shader"
    [] tag = "Mars" -> "mars_fragment_shader"
    [] tag = "Uranus" -> "uranus_fragment_shader"
    [] tag = "Nave" -> "nave_fragment_shader"
    [] tag = "Skybox" -> "skybox_fragment_shader"

\* C16: the shader render uses depends only on the tag: each recognized tag
\* selects its own shading function, every other tag the pass-through
\* shader, whose result is the fragment's interpolated color.
C16_ShaderIsSelectedByTag ==
  last.op = "render" =>
    LET planet_type == last.args[1]
        fragments == last.args[2]
        calls == last.args[3]
    IN \A j \in 1 .. Len(calls) :
         IF planet_type \in RecognizedTags
         THEN /\ calls[j].shader = OwnShader(planet_type)
              /\ \A other \in RecognizedTags \ {planet_type} :
                   calls[j].shader # OwnShader(other)
              /\ calls[j].shader # "fragment_shader"
         ELSE /\ calls[j].shader = "fragment_shader"
              /\ calls[j].color = fragments[calls[j].frag].color

\* A render tagged "earth", which no arm names: both fragments keep their
\* own colors.
C16_Witness ==
  /\ last.op = "render"
  /\ last.args[1] = "earth"
  /\ Len(last.args[3]) = 2
  /\ last.args[3][1].color = ColorB
  /\ last.args[3][2].color = ColorA


(***************************************************************************)
(* Every line between endpoints within MaxCoord of the origin              *)
(* (SpecBresenham)                                                         *)
(***************************************************************************)
Coords == -MaxCoord .. MaxCoord

BresenhamClear == pc = "new" /\ ClearOp /\ pc' = "cleared" /\ main' = main

BresenhamLine ==
  /\ pc = "cleared"
  /\ \E x0 \in Coords : \E y0 \in Coords : \E x1 \in Coords : \E y1 \in Coords :
       DrawLineOp(x0, y0, x1, y1, OrbitColor, Fin(1))
  /\ pc' = "line" /\ main' = main

NextBresenham == BresenhamClear \/ BresenhamLine

SpecBresenham == Init /\ [][NextBresenham]_vars

Max(a, b) == IF a > b THEN a ELSE b

\* C20: draw_line_with_depth returns after exactly max(|x1-x0|, |y1-y0|) + 1
\* calls to point, the first at (x0, y0) and the last at (x1, y1); each step
\* changes x by at most 1 and y by at most 1 and never moves away from the
\* end point; a zero-length line makes exactly one call.
C20_LineMakesLongestSpanPlusOneCalls ==
  last.op = "draw_line_with_depth" =>
    LET x0 == last.args[1]
        y0 == last.args[2]
        x1 == last.args[3]
        y1 == last.args[4]
        calls == last.args[7]
        n == Len(calls)
    IN /\ n = Max(Abs(x1 - x0), Abs(y1 - y0)) + 1
       /\ <<calls[1].x, calls[1].y>> = <<x0, y0>>
       /\ <<calls[n].x, calls[n].y>> = <<x1, y1>>
       /\ \A i \in 1 .. n - 1 :
            /\ Abs(calls[i + 1].x - calls[i].x) <= 1
            /\ Abs(calls[i + 1].y - calls[i].y) <= 1
            /\ Abs(x1 - calls[i + 1].x) <= Abs(x1 - calls[i].x)
            /\ Abs(y1 - calls[i + 1].y) <= Abs(y1 - calls[i].y)
       /\ <<x0, y0>> = <<x1, y1>> => n = 1

\* A line of slope 2/3 across the range, and so neither axis-parallel nor
\* diagonal: four calls.
C20_Witness ==
  /\ last.op = "draw_line_with_depth"
  /\ <<last.args[1], last.args[2], last.args[3], last.args[4]>> = <<-1, 1, 2, -1>>
  /\ Len(last.args[7]) = 4


(***************************************************************************)
(* draw_line_with_depth in i32 arithmetic                                  *)
(*                                                                         *)
(* An i32 operation whose result is out of range panics when the program   *)
(* is built with overflow checks (the dev profile) and wraps otherwise     *)
(* (the release profile).  Every value below stays inside the i32 range:   *)
(* a wrapped result is computed from operands moved by 2^31 first.         *)
(***************************************************************************)
I32Max == 2147483647
I32Min == -I32Max - 1

AddOverflows(a, b) == (b > 0 /\ a > I32Max - b) \/ (b < 0 /\ a < I32Min - b)

SubOverflows(a, b) == (b < 0 /\ a > I32Max + b) \/ (b > 0 /\ a < I32Min + b)

\* a + b modulo 2^32
WrappingAdd(a, b) ==
  IF b > 0 /\ a > I32Max - b THEN (a + I32Min) + (b + I32Min)
  ELSE IF b < 0 /\ a < I32Min - b THEN (a - I32Min) + (b - I32Min)
  ELSE a + b

\* a - b modulo 2^32
WrappingSub(a, b) ==
  IF b < 0 /\ a > I32Max + b THEN (a + I32Min) - (b - I32Min)
  ELSE IF b > 0 /\ a < I32Min + b THEN (a - I32Min) - (b + I32Min)
  ELSE a - b

\* i32::abs and unary minus: only I32Min is out of range, and wraps to itself.
WrappingAbs(a) == IF a = I32Min THEN a ELSE Abs(a)
WrappingNeg(a) == IF a = I32Min THEN a ELSE -a

\* The statements before the loop: dx, dy, sx, sy and err, and whether one of
\* them overflowed.
LineSetup(x0, y0, x1, y1) ==
  LET xd == WrappingSub(x1, x0)
      yd == WrappingSub(y1, y0)
      dx == WrappingAbs(xd)
      dy == WrappingAbs(yd)
  IN [x1 |-> x1, y1 |-> y1, dx |-> dx, dy |-> dy,
      sx |-> IF x0 < x1 THEN 1 ELSE -1,
      sy |-> IF y0 < y1 THEN 1 ELSE -1,
      err |-> WrappingSub(dx, dy),
      overflowed |-> \/ SubOverflows(x1, x0) \/ xd = I32Min
                     \/ SubOverflows(y1, y0) \/ yd = I32Min
                     \/ SubOverflows(dx, dy)]

\* One pass through the loop body after its point call and end test: the
\* next x0, y0 and err, and whether an operation overflowed.
LineStep(c, x0, y0, err) ==
  LET e2 == WrappingAdd(err, err)
      stepx == e2 > WrappingNeg(c.dy)
      stepy == e2 < c.dx
      err1 == IF stepx THEN WrappingSub(err, c.dy) ELSE err
  IN [x0 |-> IF stepx THEN WrappingAdd(x0, c.sx) ELSE x0,
      y0 |-> IF stepy THEN WrappingAdd(y0, c.sy) ELSE y0,
      err |-> IF stepy THEN WrappingAdd(err1, c.dx) ELSE err1,
      overflowed |-> \/ AddOverflows(err, err)
                     \/ c.dy = I32Min
                     \/ stepx /\ (SubOverflows(err, c.dy) \/ AddOverflows(x0, c.sx))
                     \/ stepy /\ (AddOverflows(err1, c.dx) \/ AddOverflows(y0, c.sy))]

\* The loop, for at most `steps` more iterations: the pixels handed to point
\* and how the run ends: "returned" at the end point, "panicked" on an
\* overflow under overflow checks, "running" when the iterations allowed for
\* are used up and the loop is still going.
RECURSIVE LineRun(_, _, _, _, _, _)
LineRun(c, x0, y0, err, overflow_checks, steps) ==
  IF x0 = c.x1 /\ y0 = c.y1 THEN [path |-> << <<x0, y0>> >>, outcome |-> "returned"]
  ELSE LET next == LineStep(c, x0, y0, err)
       IN IF overflow_checks /\ next.overflowed
          THEN [path |-> << <<x0, y0>> >>, outcome |-> "panicked"]
          ELSE IF steps = 0
          THEN [path |-> << <<x0, y0>> >>, outcome |-> "running"]
          ELSE LET rest == LineRun(c, next.x0, next.y0, next.err, overflow_checks, steps - 1)
               IN [path |-> << <<x0, y0>> >> \o rest.path, outcome |-> rest.outcome]

\* draw_line_with_depth on any i32 endpoints.
LineOutcome(x0, y0, x1, y1, overflow_checks, steps) ==
  LET c == LineSetup(x0, y0, x1, y1)
  IN IF overflow_checks /\ c.overflowed
     THEN [path |-> << >>, outcome |-> "panicked"]
     ELSE LineRun(c, x0, y0, c.err, overflow_checks, steps)


(***************************************************************************)
(* main: loading the meshes, then the frame loop (SpecMain)                *)
(*                                                                         *)
(* pc is the position in main; main holds its locals:                      *)
(*   overflow_checks       whether the build panics on integer overflow    *)
(*   nave_vertex_array, planet_vertex_array, and planet_file, the file     *)
(*                         the planet mesh came from                       *)
(*   close                 what window_should_close() returns              *)
(*   i                     the index of the running for loop               *)
(*   log                   the framebuffer operations of the current       *)
(*                         iteration of the frame loop, a run of point     *)
(*                         calls written as one "write"                    *)
(* The window is 1300 x 900 in the code and FbWidth x 1 here.              *)
(***************************************************************************)
celestial_bodies == <<"Sun", "Mercury", "Earth", "Mars", "Uranus">>

Started(overflow_checks) ==
  [overflow_checks |-> overflow_checks,
   nave_vertex_array |-> << >>, planet_vertex_array |-> << >>, planet_file |-> "",
   close |-> FALSE, i |-> 0, log |-> << >>]

InitMain ==
  /\ fb = New(FbWidth, 1)
  /\ panicked = FALSE
  /\ writes = << >>
  /\ clear_bg = BLACK
  /\ bg_given = BLACK
  /\ last = [op |-> "new", args |-> <<FbWidth, 1>>]
  /\ pc = "load_ship"
  /\ main \in {Started(overflow_checks) : overflow_checks \in BOOLEAN}

\* What Obj::load and get_vertex_array give.
LoadErr == [ok |-> FALSE, vertex_array |-> << >>]
LoadOk(vertex_array) == [ok |-> TRUE, vertex_array |-> vertex_array]

Logged(log, op) ==
  IF op = "write" /\ log # << >> /\ log[Len(log)] = "write" THEN log ELSE Append(log, op)

\* main.rs:313-324
LoadShip(loaded) ==
  /\ pc = "load_ship"
  /\ last' = [op |-> "load", args |-> <<"./assets/nave.obj", loaded>>]
  /\ IF ~loaded.ok \/ loaded.vertex_array = << >>
     THEN /\ panicked' = TRUE
          /\ pc' = "aborted"
          /\ main' = main
     ELSE /\ panicked' = FALSE
          /\ pc' = "load_planet"
          /\ main' = [main EXCEPT !.nave_vertex_array = loaded.vertex_array]
  /\ UNCHANGED <<fb, writes, clear_bg, bg_given>>

\* main.rs:326-336
LoadPlanet(loaded) ==
  /\ pc = "load_planet"
  /\ last' = [op |-> "load", args |-> <<"./assets/sphere.obj", loaded>>]
  /\ main' = IF loaded.ok
             THEN [main EXCEPT !.planet_vertex_array = loaded.vertex_array,
                               !.planet_file = "./assets/sphere.obj"]
             ELSE [main EXCEPT !.planet_vertex_array = main.nave_vertex_array,
                               !.planet_file = "./assets/nave.obj"]
  /\ pc' = "configure"
  /\ UNCHANGED <<fb, panicked, writes, clear_bg, bg_given>>

\* main.rs:338, and the scene set up after it
Configure ==
  /\ pc = "configure"
  /\ SetBackgroundColorOp(SpaceBlue)
  /\ pc' = "loop_head"
  /\ main' = main

\* The test of the while loop and, when it passes, the input and camera
\* statements of main.rs:441-572, which leave the framebuffer alone.
LoopHead ==
  /\ pc = "loop_head"
  /\ IF main.close
     THEN pc' = "exit" /\ main' = main
     ELSE pc' = "clear" /\ main' = [main EXCEPT !.log = << >>]
  /\ UNCHANGED <<fb, panicked, writes, clear_bg, bg_given, last>>

\* main.rs:574
FrameClear ==
  /\ pc = "clear"
  /\ ClearOp
  /\ pc' = "skybox"
  /\ main' = [main EXCEPT !.log = Logged(main.log, "clear")]

\* render_skybox: the point calls for the stars that land on the screen.
RenderSkyboxOp(stars) ==
  /\ ~panicked
  /\ fb' = PointAll(fb, stars)
  /\ panicked' = AnyPanics(fb, stars)
  /\ writes' = writes \o Addressed(fb, stars)
  /\ last' = [op |-> "render_skybox", args |-> <<stars>>]
  /\ UNCHANGED <<clear_bg, bg_given>>

\* main.rs:580
FrameSkybox(stars) ==
  /\ pc = "skybox"
  /\ RenderSkyboxOp(stars)
  /\ pc' = "bodies"
  /\ main' = [main EXCEPT !.i = 1,
                          !.log = IF stars = << >> THEN main.log ELSE Logged(main.log, "write")]

\* One pass of the loop over the bodies, main.rs:585-612: the body is skipped
\* when too far away and rendered with the planet mesh otherwise.
FrameBody(culled, raster) ==
  /\ pc = "bodies"
  /\ IF culled
     THEN /\ UNCHANGED <<fb, panicked, writes, clear_bg, bg_given, last>>
          /\ main' = [main EXCEPT !.i = IF main.i = Len(celestial_bodies) THEN 1 ELSE main.i + 1]
     ELSE /\ RenderOp(PlainUniforms, main.planet_vertex_array, celestial_bodies[main.i],
                      raster, [j \in 1 .. MaxFrags * Len(raster) |-> ColorOver])
          /\ main' = [main EXCEPT !.i = IF main.i = Len(celestial_bodies) THEN 1 ELSE main.i + 1,
                                  !.log = IF last'.args[3] = << >> THEN main.log
                                          ELSE Logged(main.log, "write")]
  /\ pc' = IF main.i = Len(celestial_bodies) THEN "orbits" ELSE "bodies"


\* The lines draw_orbit_3d draws through its screen points: each point to
\* the next, then the last back to the first.
OrbitLines(points) ==
  [k \in 1 .. Len(points) |->
     IF k < Len(points) THEN <<points[k], points[k + 1]>> ELSE <<points[k], points[1]>>]

\* The calls to draw_line_with_depth in turn, up to the first that does not
\* return.
RECURSIVE OrbitRun(_, _)
OrbitRun(lines, overflow_checks) ==
  IF lines = << >> THEN [path |-> << >>, outcome |-> "returned"]
  ELSE LET line == Head(lines)
           run == LineOutcome(line[1][1], line[1][2], line[2][1], line[2][2],
                              overflow_checks, MaxLineSteps)
       IN IF run.outcome # "returned" THEN run
          ELSE LET rest == OrbitRun(Tail(lines), overflow_checks)
               IN [path |-> run.path \o rest.path, outcome |-> rest.outcome]

\* draw_orbit_3d.  screen_positions are the projected points of the orbit
\* before `as i32`.
DrawOrbit3dOp(screen_positions, orbit_color, overflow_checks) ==
  LET points == [k \in 1 .. Len(screen_positions) |->
                   <<AsI32(screen_positions[k][1]), AsI32(screen_positions[k][2])>>]
      run == OrbitRun(OrbitLines(points), overflow_checks)
      calls == [k \in 1 .. Len(run.path) |->
                  Call(run.path[k][1], run.path[k][2], ColorToVector3(orbit_color), Fin(1000))]
  IN /\ ~panicked
     /\ fb' = PointAll(fb, calls)
     /\ panicked' = (run.outcome = "panicked" \/ AnyPanics(fb, calls))
     /\ writes' = writes \o Addressed(fb, calls)
     /\ last' = [op |-> "draw_orbit_3d",
                 args |-> <<screen_positions, orbit_color, calls, run.outcome>>]
     /\ UNCHANGED <<clear_bg, bg_given>>

\* One pass of the loop over the orbits, main.rs:615-620.  A panic ends the
\* program; a line whose loop is still going keeps main where it is.
FrameOrbit(screen_positions) ==
  /\ pc = "orbits"
  /\ IF celestial_bodies[main.i] = "Sun"
     THEN /\ UNCHANGED <<fb, panicked, writes, clear_bg, bg_given, last>>
          /\ main' = [main EXCEPT !.i = main.i + 1]
          /\ pc' = "orbits"
     ELSE /\ DrawOrbit3dOp(screen_positions, OrbitColor, main.overflow_checks)
          /\ main' = [main EXCEPT !.i = IF main.i = Len(celestial_bodies) THEN 1 ELSE main.i + 1,
                                  !.log = IF last'.args[3] = << >> THEN main.log
                                          ELSE Logged(main.log, "write")]
          /\ pc' = CASE last'.args[4] = "panicked" -> "aborted"
                     [] last'.args[4] = "running" -> "in_line"
                     [] main.i = Len(celestial_bodies) -> "ship"
                     [] OTHER -> "orbits"

\* main.rs:623-652
FrameShip(raster) ==
  /\ pc = "ship"
  /\ RenderOp(PlainUniforms, main.nave_vertex_array, "Nave", raster,
              [j \in 1 .. MaxFrags * Len(raster) |-> ColorOver])
  /\ main' = [main EXCEPT !.log = IF last'.args[3] = << >> THEN main.log
                                  ELSE Logged(main.log, "write")]
  /\ pc' = "swap"

\* A swap_buffers that unwraps the result of the upload.
SwapPanicsOnErr(upload) == upload = "Err"

\* swap_buffers tests the result with `if let Ok(..)`: no upload panics.
SwapPanics(upload) == FALSE

\* swap_buffers(&self): the image is drawn only when the upload succeeds.
SwapBuffersOp(upload) ==
  /\ ~panicked
  /\ panicked' = SwapPanics(upload)
  /\ last' = [op |-> "swap_buffers",
              args |-> <<upload, IF upload = "Ok" /\ ~SwapPanics(upload)
                                 THEN <<fb.background_color, fb.color_buffer>>
                                 ELSE << >> >>]
  /\ UNCHANGED <<fb, writes, clear_bg, bg_given>>

\* main.rs:655-656
FrameSwap(upload) ==
  /\ pc = "swap"
  /\ SwapBuffersOp(upload)
  /\ main' = [main EXCEPT !.log = Logged(main.log, "swap_buffers")]
  /\ pc' = IF panicked' THEN "aborted" ELSE "loop_head"

\* The user asks for the window to close.
RequestClose ==
  /\ pc \notin {"exit", "aborted", "in_line"}
  /\ ~main.close
  /\ main' = [main EXCEPT !.close = TRUE]
  /\ UNCHANGED <<fb, panicked, writes, clear_bg, bg_given, last, pc>>

\* Mesh files: one that fails to load, one without vertices, one triangle.
LoadResults == {LoadErr, LoadOk(<< >>), LoadOk(OneTriangle)}

\* Stars on the last column, behind everything else.
Star == Call(FbWidth - 1, 0, <<Fin(One), Fin(One), Fin(One)>>, Fin(2000))
StarLists == UNION {[1 .. n -> {Star}] : n \in 0 .. MaxStars}

\* What the rasterizer returns for a triangle of a body and of the ship.
BodyRaster == {<< >>, <<NearFragment>>}
ShipRaster == {<< >>, <<FarFragment>>}

\* Projected orbit points: the first pixel, and a point that the divide by
\* a tiny w sent to +infinity.
OrbitPositions == {<<Fin(0), Fin(0)>>, <<PosInf, Fin(0)>>}

MainLoadShip == \E loaded \in LoadResults : LoadShip(loaded)

MainLoadPlanet == \E loaded \in LoadResults : LoadPlanet(loaded)

MainSkybox == \E stars \in StarLists : FrameSkybox(stars)

MainBody ==
  \E culled \in BOOLEAN :
    \E raster \in [1 .. NumTriangles(Len(main.planet_vertex_array)) -> BodyRaster] :
      FrameBody(culled, raster)

MainOrbit == \E screen_positions \in [1 .. MaxSegments -> OrbitPositions] : FrameOrbit(screen_positions)

MainShip ==
  \E raster \in [1 .. NumTriangles(Len(main.nave_vertex_array)) -> ShipRaster] : FrameShip(raster)

MainSwap == \E upload \in {"Ok", "Err"} : FrameSwap(upload)

NextMain ==
  \/ MainLoadShip
  \/ MainLoadPlanet
  \/ Configure
  \/ LoopHead
  \/ FrameClear
  \/ MainSkybox
  \/ MainBody
  \/ MainOrbit
  \/ MainShip
  \/ MainSwap
  \/ RequestClose

SpecMain == InitMain /\ [][NextMain]_vars


FrameOver == main.log # << >> /\ main.log[Len(main.log)] = "swap_buffers"

\* C12: in every iteration of the frame loop the framebuffer operations are
\* one clear, then the writes of the frame, then one swap_buffers: no write
\* comes before the clear or after the present, and an iteration that is
\* over, by reaching the loop test again or by the program ending, has had
\* its present.
C12_FrameIsClearWritesPresent ==
  /\ main.log \in {<< >>, <<"clear">>, <<"clear", "write">>,
                   <<"clear", "swap_buffers">>, <<"clear", "write", "swap_buffers">>}
  /\ pc \in {"loop_head", "exit", "aborted"} => main.log = << >> \/ FrameOver

\* C13: a swap_buffers whose texture upload fails does not panic, draws
\* nothing, leaves the color buffer and the depth buffer as they were, and
\* main goes on to the loop test for the next frame.
C13_FailedUploadSkipsTheFrame ==
  [][pc = "swap" /\ last'.op = "swap_buffers" /\ last'.args[1] = "Err" =>
       /\ ~panicked'
       /\ last'.args[2] = << >>
       /\ fb' = fb
       /\ pc' = "loop_head"]_vars

\* A frame that wrote pixels and whose upload failed, back at the loop test.
C13_Witness ==
  /\ pc = "loop_head"
  /\ last.op = "swap_buffers"
  /\ last.args[1] = "Err"
  /\ writes # << >>
  /\ \E p \in DOMAIN fb.color_buffer : fb.color_buffer[p] # fb.background_color

\* C14: the frame loop is entered only with non-empty vertex sequences for
\* the ship and for the planets, each loaded from the file requested for it;
\* any other result of a load aborts startup.
C14_MeshLoadFailuresAreFatal ==
  pc \notin {"load_ship", "load_planet", "aborted"} =>
    /\ main.nave_vertex_array # << >>
    /\ main.planet_vertex_array # << >>
    /\ main.planet_file = "./assets/sphere.obj"

\* C19: the loop ends only by its test, which is made between frames: once an
\* iteration has started the program does not end before that frame's
\* present, and once close has been requested the loop test ends the loop.
C19_CloseIsSeenBetweenFrames ==
  [][/\ pc' = "exit" => pc = "loop_head" /\ main.close
     /\ pc' \in {"exit", "aborted"} => main.log' = << >> \/ FrameOver'
     /\ pc = "loop_head" /\ main.close => pc' \in {"exit", "loop_head"}]_vars


(***************************************************************************)
(* draw_line_with_depth on i32 endpoints, called directly and from         *)
(* draw_orbit_3d (SpecOrbit)                                               *)
(***************************************************************************)
\* Whether one of the i32 operations of draw_line_with_depth leaves the i32
\* range within the first `steps` iterations.  Up to the first overflow both
\* builds compute the same values, so this is the run that panics under
\* overflow checks.
LineOverflows(x0, y0, x1, y1, steps) ==
  LineOutcome(x0, y0, x1, y1, TRUE, steps).outcome = "panicked"

\* draw_line_with_depth in i32 arithmetic.
DrawLineI32Op(x0, y0, x1, y1, color, depth, overflow_checks) ==
  LET run == LineOutcome(x0, y0, x1, y1, overflow_checks, MaxLineSteps)
      calls == [k \in 1 .. Len(run.path) |->
                  Call(run.path[k][1], run.path[k][2], ColorToVector3(color), depth)]
  IN /\ ~panicked
     /\ fb' = PointAll(fb, calls)
     /\ panicked' = (run.outcome = "panicked" \/ AnyPanics(fb, calls))
     /\ writes' = writes \o Addressed(fb, calls)
     /\ last' = [op |-> "draw_line_with_depth",
                 args |-> <<x0, y0, x1, y1, color, depth, calls, run.outcome,
                            LineOverflows(x0, y0, x1, y1, MaxLineSteps)>>]
     /\ UNCHANGED <<clear_bg, bg_given>>

InitOrbit ==
  /\ fb = New(FbWidth, 1)
  /\ panicked = FALSE
  /\ writes = << >>
  /\ clear_bg = BLACK
  /\ bg_given = BLACK
  /\ last = [op |-> "new", args |-> <<FbWidth, 1>>]
  /\ pc = "new"
  /\ main \in {[at |-> "orbits", overflow_checks |-> overflow_checks] :
                 overflow_checks \in BOOLEAN}

\* Endpoints over the whole i32 range.
I32Coords == {I32Min, -1, 0, 1, I32Max}

\* Projected orbit points before `as i32`: on the screen, and at the camera
\* plane, where the division by w gives an infinity or a NaN.
OrbitScreenXs == {Fin(0), Fin(Sub), PosInf, NegInf, NaN}
OrbitScreen == {<<x, Fin(0)>> : x \in OrbitScreenXs}

OrbitClear == pc = "new" /\ ClearOp /\ pc' = "cleared" /\ main' = main

OrbitLine ==
  /\ pc = "cleared"
  /\ \E x0 \in I32Coords : \E y0 \in I32Coords : \E x1 \in I32Coords : \E y1 \in I32Coords :
       DrawLineI32Op(x0, y0, x1, y1, OrbitColor, Fin(1000), main.overflow_checks)
  /\ pc' = "drawn" /\ main' = main

OrbitDraw ==
  /\ pc = "cleared"
  /\ \E screen_positions \in [1 .. MaxSegments -> OrbitScreen] :
       DrawOrbit3dOp(screen_positions, OrbitColor, main.overflow_checks)
  /\ pc' = "drawn" /\ main' = main

NextOrbit == OrbitClear \/ OrbitLine \/ OrbitDraw

SpecOrbit == InitOrbit /\ [][NextOrbit]_vars

\* C21: for all i32 endpoints, the saturated casts of draw_orbit_3d
\* included, no i32 operation of draw_line_with_depth leaves the i32 range:
\* a direct call does not overflow, and no line of an orbit panics.
C21_LineArithmeticStaysInI32 ==
  /\ last.op = "draw_line_with_depth" => ~last.args[9]
  /\ last.op = "draw_orbit_3d" => last.args[4] # "panicked"


(***************************************************************************)
(* main: the camera of the frame loop and its protection (SpecCamera)      *)
(*                                                                         *)
(* main holds camera (its eye and target), safe_camera_eye and             *)
(* safe_camera_target; coordinates are whole world units.                  *)
(***************************************************************************)
\* Camera::new(eye, target, up): the eye and the target it is given.
CameraNew(eye, target) == [eye |-> eye, target |-> target]

initial_camera_pos == Vector3(Fin(0), Fin(40), Fin(140))
initial_camera_target == Vector3(Fin(0), Fin(0), Fin(0))

max_coord == 1000000

\* f32::abs
FAbs(a) ==
  CASE a.k = "nan" -> a
    [] a.k = "inf" -> PosInf
    [] OTHER -> Fin(Abs(a.v))

\* eye_ok, target_ok
AllFinite(v) == is_finite(v[1]) /\ is_finite(v[2]) /\ is_finite(v[3])

not_too_big_le(v) == \A i \in 1 .. 3 : ~FLt(Fin(max_coord), FAbs(v[i]))

not_too_big(v) == \A i \in 1 .. 3 : FLt(FAbs(v[i]), Fin(max_coord))

InitCamera ==
  /\ fb = New(FbWidth, 1)
  /\ panicked = FALSE
  /\ writes = << >>
  /\ clear_bg = BLACK
  /\ bg_given = BLACK
  /\ last = [op |-> "new", args |-> <<FbWidth, 1>>]
  /\ pc = "loop_head"
  /\ main = [camera |-> CameraNew(initial_camera_pos, initial_camera_target),
             safe_camera_eye |-> initial_camera_pos,
             safe_camera_target |-> initial_camera_target]

\* main.rs:441-557: the warp, the keyboard and avoid_collision leave some
\* eye and target in camera.
CameraUpdate(eye, target) ==
  /\ pc = "loop_head"
  /\ main' = [main EXCEPT !.camera = [eye |-> eye, target |-> target]]
  /\ last' = [op |-> "update", args |-> <<eye, target>>]
  /\ pc' = "protect"
  /\ UNCHANGED <<fb, panicked, writes, clear_bg, bg_given>>

\* main.rs:559-572
CameraProtect ==
  /\ pc = "protect"
  /\ LET eye_ok == AllFinite(main.camera.eye)
         target_ok == AllFinite(main.camera.target)
     IN IF ~eye_ok \/ ~target_ok
           \/ ~not_too_big(main.camera.eye) \/ ~not_too_big(main.camera.target)
        THEN main' = [main EXCEPT !.camera = [eye |-> main.safe_camera_eye,
                                              target |-> main.safe_camera_target]]
        ELSE main' = [main EXCEPT !.safe_camera_eye = main.camera.eye,
                                  !.safe_camera_target = main.camera.target]
  /\ last' = [op |-> "protect",
              args |-> <<main.camera.eye, main.camera.target,
                         main.safe_camera_eye, main.safe_camera_target>>]
  /\ pc' = "clear"
  /\ UNCHANGED <<fb, panicked, writes, clear_bg, bg_given>>

\* main.rs:574-656: the frame, opened by framebuffer.clear(); rendering reads
\* camera through get_view_matrix() and assigns nothing to it.
CameraFrame ==
  /\ pc = "clear"
  /\ ClearOp
  /\ pc' = "loop_head"
  /\ main' = main

\* What one coordinate can come out as.
CameraCoords == {NaN, PosInf, NegInf, Fin(0), Fin(max_coord - 1), Fin(max_coord), Fin(-max_coord)}

Computed(v) == {[v EXCEPT ![i] = c] : i \in 1 .. 3, c \in CameraCoords}

SomeCameraUpdate ==
  \E eye \in Computed(initial_camera_pos) : \E target \in Computed(initial_camera_target) :
    CameraUpdate(eye, target)

NextCamera == SomeCameraUpdate \/ CameraProtect \/ CameraFrame

SpecCamera == InitCamera /\ [][NextCamera]_vars

Bounded(v) == \A i \in 1 .. 3 : v[i].k = "fin" /\ -max_coord < v[i].v /\ v[i].v < max_coord

\* C22: when rendering starts, after the protection step, every coordinate
\* of camera.eye and camera.target is finite and below 1e6 in absolute
\* value; the saved safe eye and target are so in every state; and a frame
\* whose computed camera is not renders with the last safe eye and target.
C22_CameraIsProtected ==
  /\ Bounded(main.safe_camera_eye) /\ Bounded(main.safe_camera_target)
  /\ pc = "clear" =>
       /\ Bounded(main.camera.eye) /\ Bounded(main.camera.target)
       /\ last.op = "protect"
       /\ IF Bounded(last.args[1]) /\ Bounded(last.args[2])
          THEN main.camera.eye = last.args[1] /\ main.camera.target = last.args[2]
          ELSE main.camera.eye = last.args[3] /\ main.camera.target = last.args[4]

\* A frame about to render with a safe camera saved by an earlier frame,
\* its own computed eye being exactly 1e6 in one coordinate.
C22_Witness ==
  /\ pc = "clear"
  /\ last.op = "protect"
  /\ \E i \in 1 .. 3 : last.args[1][i] = Fin(max_coord)
  /\ main.camera.eye = last.args[3]
  /\ main.camera.eye # initial_camera_pos

====
